---- MODULE Spec2Model ----
(***************************************************************************)
(* icx-rustc: an Intel/MSVC-flavoured command line is translated into a    *)
(* rustc invocation (src/src/translator.rs), the invocation is executed    *)
(* with its output streamed by two workers (src/src/executor.rs), and its  *)
(* diagnostics are classified line by line (src/src/diagnostics.rs).       *)
(* Strings are TLA+ strings; Option<T> is a sequence of length 0 or 1.     *)
(***************************************************************************)
EXTENDS Integers, Sequences, FiniteSets, TLC

VARIABLES
    args,       \* cli::Args, the parsed Flag Model
    host,       \* the build's target_os and the host's detected CPU features
    pc,         \* position of main.rs run() / executor::run()
    res,        \* result of translator::translate (Ok(cmd) or Err), with its eprintln lines
    argv,       \* argument list handed to Command (executor.rs:13-20)
    shown,      \* RustcCommand::display() of the invocation
    echoed,     \* lines main.rs wrote to its error stream (the -v / --### echo)
    child,      \* the spawned subprocess: lines left to write, exit status
    pipes,      \* the two OS pipes: buffered lines and closed flags
    workers,    \* the stdout and stderr worker threads: state and emitted lines
    counters,   \* executor.rs:46-47 `errors`, `warnings`
    summary,    \* arguments of print_summary (Option)
    ret,        \* value returned by executor::run: none yet, Ok(code) or Err
    exit_code,  \* exit code of the icx-rustc process (Option)
    spawns,     \* number of Command::spawn calls made
    diag        \* DiagnosticReporter::report applied to one line

vars == <<args, host, pc, res, argv, shown, echoed, child, pipes, workers,
          counters, summary, ret, exit_code, spawns, diag>>

-----------------------------------------------------------------------------
(* Bounds of the model *)

MaxFiles == 2
MaxRaw == 2
MaxLines == 2
MaxAtoms == 3

-----------------------------------------------------------------------------
(* Option and string helpers *)

None == <<>>
Some(x) == <<x>>
IsSome(o) == Len(o) = 1
IsNone(o) == Len(o) = 0
Unwrap(o) == o[1]

\* Option::or_else
OrElse(o, p) == IF IsSome(o) THEN o ELSE p

\* the characters a..b of s that exist
Slice(s, a, b) == IF a > Len(s) THEN "" ELSE SubSeq(s, a, IF b > Len(s) THEN Len(s) ELSE b)
Char(s, i) == Slice(s, i, i)
StartsWith(s, p) == Len(s) >= Len(p) /\ SubSeq(s, 1, Len(p)) = p
EndsWith(s, p) == Len(s) >= Len(p) /\ SubSeq(s, Len(s) - Len(p) + 1, Len(s)) = p
Contains(s, p) == \E i \in 1..(Len(s) - Len(p) + 1) : SubSeq(s, i, i + Len(p) - 1) = p
DropFirst(s, n) == SubSeq(s, n + 1, Len(s))
Positions(s, c) == {i \in 1..Len(s) : Char(s, i) = c}
SetMax(S) == CHOOSE m \in S : \A k \in S : k <= m
SetMin(S) == CHOOSE m \in S : \A k \in S : m <= k

\* all sequences over S of length at most n
SeqsUpTo(S, n) == UNION {[1..k -> S] : k \in 0..n}

\* [String]::join(sep)
RECURSIVE Join(_, _)
Join(xs, sep) ==
    IF Len(xs) = 0 THEN ""
    ELSE IF Len(xs) = 1 THEN xs[1]
    ELSE xs[1] \o sep \o Join(Tail(xs), sep)

-----------------------------------------------------------------------------
(* std::path::Path as used by translate and translate_output *)

\* trailing separators and trailing "." components are not components
RECURSIVE TrimPath(_)
TrimPath(p) ==
    IF Len(p) > 1 /\ EndsWith(p, "/") THEN TrimPath(SubSeq(p, 1, Len(p) - 1))
    ELSE IF Len(p) >= 2 /\ EndsWith(p, "/.") THEN TrimPath(SubSeq(p, 1, Len(p) - 1))
    ELSE p

\* Path::file_name: the last normal component, None for "", "/", "." and ".."
file_name(p) ==
    LET t == TrimPath(p)
        sl == Positions(t, "/")
        last == IF sl = {} THEN t ELSE DropFirst(t, SetMax(sl))
    IN IF last \in {"", ".", ".."} THEN None ELSE Some(last)

\* rsplit_file_at_dot: <<before, after>> around the last dot of a file name
rsplit_file_at_dot(f) ==
    LET dots == Positions(f, ".") IN
    IF dots = {} THEN <<None, Some(f)>>
    ELSE LET d == SetMax(dots) IN
         IF d = 1 THEN <<Some(f), None>>
         ELSE <<Some(SubSeq(f, 1, d - 1)), Some(DropFirst(f, d))>>

\* Path::file_stem: before.or(after)
file_stem(p) ==
    LET n == file_name(p) IN
    IF IsNone(n) THEN None
    ELSE LET ba == rsplit_file_at_dot(Unwrap(n)) IN OrElse(ba[1], ba[2])

\* Path::extension: before.and(after)
extension(p) ==
    LET n == file_name(p) IN
    IF IsNone(n) THEN None
    ELSE LET ba == rsplit_file_at_dot(Unwrap(n)) IN
         IF IsSome(ba[1]) THEN ba[2] ELSE None

\* translator.rs:71  file.extension().map_or(false, |e| e == "rs")
is_rs(p) == extension(p) = Some("rs")

-----------------------------------------------------------------------------
(* translator.rs: RustcCommand and the translation steps.  A step maps a   *)
(* record [cmd, err, stderr] to the next one: cmd is the RustcCommand being*)
(* built, err the error a `?` would propagate, stderr the eprintln lines.  *)

\* RustcCommand::new
RustcCommand_new ==
    [executable |-> "rustc", args |-> <<>>, env_vars |-> <<>>,
     input_files |-> <<>>, output |-> None]

Push(st, tok) == [st EXCEPT !.cmd.args = Append(@, tok)]
Eprintln(st, l) == [st EXCEPT !.stderr = Append(@, l)]
Bail(st, msg) == [st EXCEPT !.err = Some(msg)]

\* the level chosen by the match of translate_optimization
opt_level_of_PreferLegacy(a) ==
    IF IsSome(a.msvc_opt) THEN
        LET s == Unwrap(a.msvc_opt) IN
        IF s \in {"0", "d"} THEN "0"
        ELSE IF s = "1" THEN "1"
        ELSE IF s = "2" THEN "2"
        ELSE IF s \in {"3", "x"} THEN "3"
        ELSE "2"
    ELSE IF IsSome(a.opt_level) THEN
        LET l == Unwrap(a.opt_level) IN
        IF l = "O0" THEN "0" ELSE IF l = "O1" THEN "1" ELSE IF l = "O2" THEN "2" ELSE "3"
    ELSE IF a.release THEN "3"
    ELSE "2"
opt_level_of(a) ==
    IF IsSome(a.opt_level) THEN
        LET l == Unwrap(a.opt_level) IN
        IF l = "O0" THEN "0"
        ELSE IF l = "O1" THEN "1"
        ELSE IF l = "O2" THEN "2"
        ELSE IF l = "O3" THEN "3"
        ELSE "3"
    ELSE IF IsSome(a.msvc_opt) THEN
        LET s == Unwrap(a.msvc_opt) IN
        IF s \in {"0", "d"} THEN "0"
        ELSE IF s = "1" THEN "1"
        ELSE IF s = "2" THEN "2"
        ELSE IF s \in {"3", "x"} THEN "3"
        ELSE "2"
    ELSE IF a.release THEN "3"
    ELSE "2"

translate_optimization(st, a) ==
    LET level == opt_level_of(a)
        s1 == Push(st, "-Copt-level=" \o level)
    IN IF level = "3" THEN Push(s1, "-Clto=fat") ELSE s1

\* cfg(target_os) selects the body of detect_host_target at build time
detect_host_target(h) ==
    IF h.os = "windows" THEN [err |-> None, val |-> "x86_64-pc-windows-msvc"]
    ELSE IF h.os = "linux" THEN [err |-> None, val |-> "x86_64-unknown-linux-gnu"]
    ELSE [err |-> Some("Unsupported host platform"), val |-> ""]

detect_host_features(h) ==
    <<"+crt-static">> \o
        (IF h.avx512f THEN <<"+avx512f", "+avx512vl">>
         ELSE IF h.avx2 THEN <<"+avx2">>
         ELSE IF h.sse42 THEN <<"+sse4.2">>
         ELSE <<>>)

\* the table of translate_architecture
arch_known(arch) == arch \in {"AVX", "AVX2", "AVX512", "CORE-AVX512", "SSE4.2", "CORE-AVX", "SSE2"}
arch_features(arch) ==
    IF arch = "AVX" THEN <<"+avx">>
    ELSE IF arch = "AVX2" THEN <<"+avx2">>
    ELSE IF arch \in {"AVX512", "CORE-AVX512"} THEN <<"+avx512f", "+avx512vl", "+avx512bw">>
    ELSE IF arch \in {"SSE4.2", "CORE-AVX"} THEN <<"+sse4.2">>
    ELSE IF arch = "SSE2" THEN <<"+sse2">>
    ELSE <<>>

unknown_arch_warning(arch) == "[icx-rustc] warning: unknown arch '" \o arch \o "', using default"

named_architecture_NoEmptyCheck(st, a) ==
    IF IsSome(a.arch) THEN
        LET arch == Unwrap(a.arch)
            features == arch_features(arch)
            s1 == IF arch_known(arch) THEN st ELSE Eprintln(st, unknown_arch_warning(arch))
        IN Push(s1, "-Ctarget-feature=" \o Join(features, ","))
    ELSE st
named_architecture(st, a) ==
    IF IsSome(a.arch) THEN
        LET arch == Unwrap(a.arch)
            features == arch_features(arch)
            s1 == IF arch_known(arch) THEN st ELSE Eprintln(st, unknown_arch_warning(arch))
        IN IF Len(features) > 0
           THEN Push(s1, "-Ctarget-feature=" \o Join(features, ","))
           ELSE s1
    ELSE st

translate_architecture(st, a, h) ==
    IF a.xhost THEN
        LET target == detect_host_target(h) IN
        IF IsSome(target.err) THEN Bail(st, Unwrap(target.err))
        ELSE LET s1 == Push(st, "--target=" \o target.val)
                 features == detect_host_features(h)
             IN IF Len(features) > 0
                THEN Push(s1, "-Ctarget-feature=" \o Join(features, ","))
                ELSE s1
    ELSE named_architecture(st, a)

translate_output_ObjFirst(st, a) ==
    LET output == OrElse(OrElse(a.msvc_obj, a.msvc_exe), a.output) IN
    IF IsSome(output) THEN [st EXCEPT !.cmd.output = output]
    ELSE IF a.compile_only /\ Len(a.files) = 1 THEN
        LET stem == file_stem(a.files[1]) IN
        IF IsNone(stem) THEN Bail(st, "Invalid input filename")
        ELSE [st EXCEPT !.cmd.output = Some(Unwrap(stem) \o ".o")]
    ELSE st
translate_output(st, a) ==
    LET output == OrElse(OrElse(a.output, a.msvc_exe), a.msvc_obj) IN
    IF IsSome(output) THEN [st EXCEPT !.cmd.output = output]
    ELSE IF a.compile_only /\ Len(a.files) = 1 THEN
        LET stem == file_stem(a.files[1]) IN
        IF IsNone(stem) THEN Bail(st, "Invalid input filename")
        ELSE [st EXCEPT !.cmd.output = Some(Unwrap(stem) \o ".o")]
    ELSE st

\* str::split_once('=') then format!("--cfg={}={}") / format!("--cfg={}")
cfg_flag(def) ==
    LET eqs == Positions(def, "=") IN
    IF eqs = {} THEN "--cfg=" \o def
    ELSE LET e == SetMin(eqs) IN
         "--cfg=" \o SubSeq(def, 1, e - 1) \o "=" \o DropFirst(def, e)

RECURSIVE PushAll(_, _)
PushAll(st, toks) ==
    IF Len(toks) = 0 THEN st ELSE PushAll(Push(st, Head(toks)), Tail(toks))

RECURSIVE EprintlnAll(_, _)
EprintlnAll(st, ls) ==
    IF Len(ls) = 0 THEN st ELSE EprintlnAll(Eprintln(st, Head(ls)), Tail(ls))

undef_warning(u) == "[icx-rustc] warning: /U" \o u \o " not fully supported in Rust"

translate_defines(st, a) ==
    EprintlnAll(
        PushAll(st, [i \in 1..Len(a.defines) |-> cfg_flag(a.defines[i])]),
        [i \in 1..Len(a.undefines) |-> undef_warning(a.undefines[i])])

translate_warnings(st, a) ==
    LET s1 == IF a.wx THEN Push(st, "-Dwarnings") ELSE st IN
    IF IsNone(a.warn_level) THEN s1
    ELSE LET l == Unwrap(a.warn_level) IN
         IF l = "0" THEN Push(s1, "-Awarnings")
         ELSE IF l = "1" THEN Push(Push(s1, "-Wwarnings"), "-Adead_code")
         ELSE IF l \in {"3", "all"} THEN Push(s1, "-Wwarnings")
         ELSE s1

\* shlex::quote on the link arguments the model draws: a string with a space
\* is wrapped in quotes, a string of safe characters is returned as it is
shlex_quote(s) ==
    IF s = "" THEN "''"
    ELSE IF Contains(s, " ") THEN "'" \o s \o "'"
    ELSE s

translate_linking(st, a) ==
    IF Len(a.link_args) > 0
    THEN Push(st, "-Clink-args=" \o shlex_quote(Join(a.link_args, " ")))
    ELSE st

translate_rust_specific(st, a) ==
    LET s1 == IF IsSome(a.edition) THEN Push(st, "--edition=" \o Unwrap(a.edition)) ELSE st
        s2 == IF IsSome(a.crate_type) THEN Push(s1, "--crate-type=" \o Unwrap(a.crate_type)) ELSE s1
        s3 == IF IsSome(a.target) THEN Push(s2, "--target=" \o Unwrap(a.target)) ELSE s2
    IN Push(Push(s3, "-Ccodegen-units=1"), "-Cpanic=abort")

\* translator.rs:70-77, the loop over args.files
RECURSIVE classify_files(_, _)
classify_files(st, fs) ==
    IF Len(fs) = 0 THEN st
    ELSE classify_files(
            IF is_rs(Head(fs))
            THEN [st EXCEPT !.cmd.input_files = Append(@, Head(fs))]
            ELSE Push(st, Head(fs)),
            Tail(fs))

\* translator.rs:79-81
check_inputs(st, a) ==
    IF Len(st.cmd.input_files) = 0 /\ ~a.version /\ ~a.help
    THEN Bail(st, "No input files specified")
    ELSE st

\* translator.rs:84
extend_raw(st, a) == [st EXCEPT !.cmd.args = @ \o a.raw_args]

\* the `?` operator: a step runs only if no earlier step failed
Try(st, F(_)) == IF IsSome(st.err) THEN st ELSE F(st)

\* translate: Ok(cmd) is [cmd |-> Some(cmd)], Err(e) is [cmd |-> None, err |-> Some(e)]
translate(a, h) ==
    LET s0 == [cmd |-> RustcCommand_new, err |-> None, stderr |-> <<>>]
        s1 == Try(s0, LAMBDA s : translate_optimization(s, a))
        s2 == Try(s1, LAMBDA s : translate_architecture(s, a, h))
        s3 == Try(s2, LAMBDA s : IF a.compile_only THEN Push(s, "--emit=obj") ELSE s)
        s4 == Try(s3, LAMBDA s : translate_output(s, a))
        s5 == Try(s4, LAMBDA s : translate_defines(s, a))
        s6 == Try(s5, LAMBDA s : translate_warnings(s, a))
        s7 == Try(s6, LAMBDA s : translate_linking(s, a))
        s8 == Try(s7, LAMBDA s : translate_rust_specific(s, a))
        s9 == Try(s8, LAMBDA s : classify_files(s, a.files))
        s10 == Try(s9, LAMBDA s : check_inputs(s, a))
        s11 == Try(s10, LAMBDA s : extend_raw(s, a))
    IN [cmd |-> IF IsSome(s11.err) THEN None ELSE Some(s11.cmd),
        err |-> s11.err,
        stderr |-> s11.stderr]

\* RustcCommand::display
display(cmd) ==
    Join(<<cmd.executable>> \o cmd.args \o cmd.input_files
            \o (IF IsSome(cmd.output) THEN <<"-o", Unwrap(cmd.output)>> ELSE <<>>),
         " ")

\* executor.rs:13-20, the arguments given to Command
command_args(cmd) ==
    cmd.args \o cmd.input_files
        \o (IF IsSome(cmd.output) THEN <<"-o", Unwrap(cmd.output)>> ELSE <<>>)

-----------------------------------------------------------------------------
(* diagnostics.rs: DiagnosticReporter.  The regexes of new() are matched   *)
(* on the characters of the line; the rendering is the text written, the   *)
(* terminal colours of the `colored` crate left out.                       *)

IsSpace(c) == c \in {" ", "\t"}
IsDigit(c) == c \in {"0", "1", "2", "3", "4", "5", "6", "7", "8", "9"}

\* str::trim_start, str::trim_end, str::trim
RECURSIVE trim_start(_)
trim_start(s) == IF Len(s) > 0 /\ IsSpace(Char(s, 1)) THEN trim_start(Tail(s)) ELSE s
RECURSIVE trim_end(_)
trim_end(s) ==
    IF Len(s) > 0 /\ IsSpace(Char(s, Len(s))) THEN trim_end(SubSeq(s, 1, Len(s) - 1)) ELSE s
trim(s) == trim_end(trim_start(s))

\* length of the run of digits that starts at position k
RECURSIVE DigitRun(_, _)
DigitRun(s, k) ==
    IF k <= Len(s) /\ IsDigit(Char(s, k)) THEN 1 + DigitRun(s, k + 1) ELSE 0

\* str::replace(pat, ""): every occurrence removed, left to right
RECURSIVE Remove(_, _)
Remove(s, pat) ==
    IF Len(s) = 0 THEN ""
    ELSE IF StartsWith(s, pat) THEN Remove(DropFirst(s, Len(pat)), pat)
    ELSE Char(s, 1) \o Remove(Tail(s), pat)

\* location_regex  ^\s*--> (.+):(\d+):(\d+)  : the positions of the colon that
\* ends group 1, in the text after the arrow
location_body(line) == DropFirst(trim_start(line), 4)
location_splits(line) ==
    LET b == location_body(line) IN
    {i \in 2..Len(b) :
        /\ Char(b, i) = ":"
        /\ LET n == DigitRun(b, i + 1) IN
             /\ n > 0
             /\ Char(b, i + 1 + n) = ":"
             /\ DigitRun(b, i + 2 + n) > 0}
location_match(line) ==
    StartsWith(trim_start(line), "--> ") /\ location_splits(line) # {}
\* the captures: group 1 is greedy, so it ends at the last possible colon
location_captures(line) ==
    LET b == location_body(line)
        i == SetMax(location_splits(line))
        n == DigitRun(b, i + 1)
        m == DigitRun(b, i + 2 + n)
    IN [file |-> SubSeq(b, 1, i - 1),
        row |-> SubSeq(b, i + 1, i + n),
        col |-> SubSeq(b, i + 2 + n, i + 1 + n + m)]

\* error_regex  ^error(\[E\d+\])?:  : length of the match, 0 when there is none
error_match_len(line) ==
    IF ~StartsWith(line, "error") THEN 0
    ELSE IF Char(line, 6) = ":" THEN 6
    ELSE IF Slice(line, 6, 7) = "[E" THEN
        LET n == DigitRun(line, 8) IN
        IF n > 0 /\ Slice(line, 8 + n, 9 + n) = "]:" THEN 9 + n ELSE 0
    ELSE 0
error_match(line) == error_match_len(line) > 0

\* warning_regex  ^warning:
warning_match(line) == StartsWith(line, "warning:")
\* note_regex  ^\s*= note:     help_regex  ^\s*= help:
note_match(line) == StartsWith(trim_start(line), "= note:")
help_match(line) == StartsWith(trim_start(line), "= help:")

format_error(line) == "error" \o " " \o "[ICX]" \o " " \o DropFirst(line, error_match_len(line))
format_warning(line) == "warning" \o " " \o "[ICX]" \o " " \o DropFirst(line, Len("warning:"))
format_note(line) == "     " \o "note:" \o " " \o trim(Remove(line, "= note:"))
format_help(line) == "     " \o "help:" \o " " \o trim(Remove(line, "= help:"))
format_code_line(line) == "     " \o line

\* DiagnosticReporter::report: kind names the branch taken, out the line
\* printed, delta the returned (warnings, errors)
report_Contains(line) ==
    IF Contains(line, "error[") \/ Contains(line, "error:") THEN
        [kind |-> "Error", out |-> format_error(line), delta |-> <<0, 1>>]
    ELSE IF Contains(line, "warning:") THEN
        [kind |-> "Warning", out |-> format_warning(line), delta |-> <<1, 0>>]
    ELSE IF location_match(line) THEN
        LET c == location_captures(line) IN
        [kind |-> "Location",
         out |-> "     " \o "-->" \o " " \o c.file \o ":" \o c.row \o ":" \o c.col,
         delta |-> <<0, 0>>]
    ELSE IF note_match(line) THEN
        [kind |-> "Note", out |-> format_note(line), delta |-> <<0, 0>>]
    ELSE IF help_match(line) THEN
        [kind |-> "Help", out |-> format_help(line), delta |-> <<0, 0>>]
    ELSE IF StartsWith(trim_start(line), "|") THEN
        [kind |-> "CodeContext", out |-> format_code_line(line), delta |-> <<0, 0>>]
    ELSE [kind |-> "Plain", out |-> "     " \o line, delta |-> <<0, 0>>]
report(line) ==
    IF location_match(line) THEN
        LET c == location_captures(line) IN
        [kind |-> "Location",
         out |-> "     " \o "-->" \o " " \o c.file \o ":" \o c.row \o ":" \o c.col,
         delta |-> <<0, 0>>]
    ELSE IF error_match(line) THEN
        [kind |-> "Error", out |-> format_error(line), delta |-> <<0, 1>>]
    ELSE IF warning_match(line) THEN
        [kind |-> "Warning", out |-> format_warning(line), delta |-> <<1, 0>>]
    ELSE IF note_match(line) THEN
        [kind |-> "Note", out |-> format_note(line), delta |-> <<0, 0>>]
    ELSE IF help_match(line) THEN
        [kind |-> "Help", out |-> format_help(line), delta |-> <<0, 0>>]
    ELSE IF StartsWith(trim_start(line), "|") THEN
        [kind |-> "CodeContext", out |-> format_code_line(line), delta |-> <<0, 0>>]
    ELSE [kind |-> "Plain", out |-> "     " \o line, delta |-> <<0, 0>>]

-----------------------------------------------------------------------------
(* The inputs the model draws *)

\* Args with no option given (cli.rs:18-117; optimize_diagnostics defaults to true)
DefaultArgs ==
    [files |-> <<>>, opt_level |-> None, msvc_opt |-> None, compile_only |-> FALSE,
     output |-> None, msvc_obj |-> None, msvc_exe |-> None, arch |-> None,
     xhost |-> FALSE, defines |-> <<>>, undefines |-> <<>>, includes |-> <<>>,
     warn_level |-> None, wx |-> FALSE, link_args |-> <<>>, verbose |-> FALSE,
     dry_run |-> FALSE, version |-> FALSE, help |-> FALSE, edition |-> None,
     crate_type |-> None, target |-> None, release |-> FALSE,
     optimize_diagnostics |-> TRUE, raw_args |-> <<>>]

Opt(S) == {None} \cup {Some(x) : x \in S}

\* cli.rs:5-7 OptLevel
OptLevels == {"O0", "O1", "O2", "O3", "Ox"}
LegacyLevels == {"0", "d", "1", "2", "3", "x", "s", ""}
Paths == {"foo.rs", "lib.a", "src/main.rs", "..", ".rs", "a.b.rs", "x.RS"}
ArchNames == {"AVX", "AVX2", "AVX512", "CORE-AVX512", "SSE4.2", "CORE-AVX", "SSE2",
              "avx2", "SSE3", ""}
RawTokens == {"-Copt-level=0", "-Ctarget-feature=+avx", "extra.rs"}

LinuxHost == [os |-> "linux", avx512f |-> FALSE, avx2 |-> TRUE, sse42 |-> TRUE]
Hosts == [os : {"linux", "windows", "other"}, avx512f : BOOLEAN, avx2 : BOOLEAN, sse42 : BOOLEAN]

\* optimization flags, with and without the other flags that emit tokens
ArgsOpt ==
    {[DefaultArgs EXCEPT !.files = <<"foo.rs">>, !.opt_level = o, !.msvc_opt = m,
                         !.release = r, !.compile_only = c, !.arch = a]
        : o \in Opt(OptLevels), m \in Opt(LegacyLevels), r \in BOOLEAN,
          c \in BOOLEAN, a \in {None, Some("AVX2")}}

\* file arguments and output candidates
ArgsOut ==
    {[DefaultArgs EXCEPT !.files = f, !.output = o, !.msvc_exe = e, !.msvc_obj = b,
                         !.compile_only = c, !.version = q[1], !.help = q[2]]
        : f \in SeqsUpTo(Paths, MaxFiles), o \in Opt({"out.exe"}), e \in Opt({"fe.exe"}),
          b \in Opt({"fo.obj"}), c \in BOOLEAN,
          q \in {<<FALSE, FALSE>>, <<TRUE, FALSE>>, <<FALSE, TRUE>>}}

\* architecture selection
ArgsArch ==
    {[DefaultArgs EXCEPT !.files = f, !.arch = a, !.xhost = x, !.target = t, !.raw_args = r]
        : f \in {<<"foo.rs">>, <<"lib.a">>, <<"foo.rs", "lib.a">>},
          a \in Opt(ArchNames), x \in BOOLEAN, t \in Opt({"wasm32-wasi"}),
          r \in {<<>>, <<"-Ctarget-feature=+avx">>}}

\* every translation step emitting, with raw pass-through arguments
ArgsRaw ==
    {[DefaultArgs EXCEPT !.files = f, !.raw_args = r, !.output = o, !.defines = d,
                         !.undefines = u, !.warn_level = w, !.wx = x, !.link_args = l,
                         !.edition = e[1], !.crate_type = e[2]]
        : f \in {<<"foo.rs">>, <<"lib.a", "foo.rs">>, <<"lib.a">>},
          r \in SeqsUpTo(RawTokens, MaxRaw), o \in Opt({"out.exe"}),
          d \in {<<>>, <<"DEBUG", "VER=2">>}, u \in {<<>>, <<"NDEBUG">>},
          w \in Opt({"1", "all", "2"}), x \in BOOLEAN,
          l \in {<<>>, <<"-lm", "-L.">>},
          e \in {<<None, None>>, <<Some("2021"), Some("bin")>>}}

HostsFor(a) == IF a.xhost THEN Hosts ELSE {LinuxHost}

\* the command lines a run of main is started with
ArgsMain ==
    {[DefaultArgs EXCEPT !.files = f, !.version = v, !.help = h, !.dry_run = d,
                         !.verbose = b, !.compile_only = (f = <<"..">>),
                         !.optimize_diagnostics = ~b]
        : f \in {<<>>, <<"foo.rs">>, <<"..">>}, v \in BOOLEAN, h \in BOOLEAN,
          d \in BOOLEAN, b \in BOOLEAN}

\* lines a subprocess writes; BadLine stands for a line whose bytes are not
\* valid UTF-8, for which BufRead::lines yields Err
BadLine == "<not UTF-8>"
OutLines == {"hello", BadLine}
ErrLines == {"warning: unused variable", "error[E0382]: use of moved value", BadLine}

\* lines given to the classifier: concatenations of these pieces
ScenarioLines == {"error[E0382]: use of moved value", "warning: unused variable",
                  "   --> src/main.rs:3:5"}
Atoms == {"error", "error:", "[E0382]", ":", "warning:", " ", "--> ", "a.rs:3:5",
          "= note:", "= help:", "|", "^", "x"}
RECURSIVE Concat(_)
Concat(xs) == IF Len(xs) = 0 THEN "" ELSE Head(xs) \o Concat(Tail(xs))
DiagLines == {Concat(xs) : xs \in SeqsUpTo(Atoms, MaxAtoms)} \cup ScenarioLines

-----------------------------------------------------------------------------
(* State *)

NoRes == [cmd |-> None, err |-> None, stderr |-> <<>>]
NoChild == [state |-> "none", out_todo |-> <<>>, err_todo |-> <<>>,
            out_sent |-> <<>>, err_sent |-> <<>>, status |-> None]
NoPipes == [out |-> <<>>, err |-> <<>>, out_closed |-> FALSE, err_closed |-> FALSE]
NoWorkers == [out |-> [state |-> "none", lines |-> <<>>, emitted |-> <<>>],
              err |-> [state |-> "none", lines |-> <<>>, emitted |-> <<>>]]
NoDiag == [line |-> "", first |-> None, again |-> None]
NoRet == [state |-> "none", code |-> 0]

Idle ==
    /\ res = NoRes
    /\ argv = <<>>
    /\ shown = None
    /\ echoed = <<>>
    /\ child = NoChild
    /\ pipes = NoPipes
    /\ workers = NoWorkers
    /\ counters = [errors |-> 0, warnings |-> 0]
    /\ summary = None
    /\ ret = NoRet
    /\ exit_code = None
    /\ spawns = 0
    /\ diag = NoDiag

-----------------------------------------------------------------------------
(* translate applied to a Flag Model, and the command built from its result *)

InitT ==
    /\ args \in ArgsOpt \cup ArgsOut \cup ArgsArch \cup ArgsRaw
    /\ host \in HostsFor(args)
    /\ pc = "call"
    /\ Idle

CallTranslate ==
    /\ pc = "call"
    /\ res' = translate(args, host)
    /\ pc' = "returned"
    /\ UNCHANGED <<args, host, argv, shown, echoed, child, pipes, workers, counters,
                   summary, ret, exit_code, spawns, diag>>

BuildCommand ==
    /\ pc = "returned"
    /\ IsSome(res.cmd)
    /\ argv' = command_args(Unwrap(res.cmd))
    /\ shown' = Some(display(Unwrap(res.cmd)))
    /\ pc' = "built"
    /\ UNCHANGED <<args, host, res, echoed, child, pipes, workers, counters,
                   summary, ret, exit_code, spawns, diag>>

NextT == CallTranslate \/ BuildCommand

SpecT == InitT /\ [][NextT]_vars

-----------------------------------------------------------------------------
(* DiagnosticReporter::report applied to a line, and applied to it again *)

InitD ==
    /\ args = DefaultArgs
    /\ host = LinuxHost
    /\ pc = "report"
    /\ Idle

Report ==
    /\ pc = "report"
    /\ \E l \in DiagLines :
         diag' = [line |-> l, first |-> Some(report(l)), again |-> None]
    /\ pc' = "reported"
    /\ UNCHANGED <<args, host, res, argv, shown, echoed, child, pipes, workers,
                   counters, summary, ret, exit_code, spawns>>

ReportAgain ==
    /\ pc = "reported"
    /\ diag' = [diag EXCEPT !.again = Some(report(diag.line))]
    /\ pc' = "reported_twice"
    /\ UNCHANGED <<args, host, res, argv, shown, echoed, child, pipes, workers,
                   counters, summary, ret, exit_code, spawns>>

NextD == Report \/ ReportAgain

SpecD == InitD /\ [][NextD]_vars

-----------------------------------------------------------------------------
(* A run of icx-rustc: main.rs run(), executor::run(), the two worker      *)
(* threads and the subprocess.                                             *)

Init ==
    /\ args \in ArgsMain
    /\ host = LinuxHost
    /\ pc = "start"
    /\ Idle

Cmd == Unwrap(res.cmd)

\* main.rs:20-23
ShowVersion ==
    /\ pc = "start"
    /\ args.version
    /\ exit_code' = Some(0)
    /\ pc' = "exit"
    /\ UNCHANGED <<args, host, res, argv, shown, echoed, child, pipes, workers,
                   counters, summary, ret, spawns, diag>>

\* main.rs:26-29
ShowHelp ==
    /\ pc = "start"
    /\ ~args.version
    /\ args.help
    /\ exit_code' = Some(0)
    /\ pc' = "exit"
    /\ UNCHANGED <<args, host, res, argv, shown, echoed, child, pipes, workers,
                   counters, summary, ret, spawns, diag>>

\* main.rs:32
Translate ==
    /\ pc = "start"
    /\ ~args.version
    /\ ~args.help
    /\ res' = translate(args, host)
    /\ pc' = IF IsSome(res'.err) THEN "error" ELSE "translated"
    /\ UNCHANGED <<args, host, argv, shown, echoed, child, pipes, workers,
                   counters, summary, ret, exit_code, spawns, diag>>

\* main.rs:35-45: the echo of the command, and the return of a dry run
Echo_NoReturn ==
    /\ pc = "translated"
    /\ shown' = Some(display(Cmd))
    /\ echoed' = Append(echoed, "[icx-rustc] " \o display(Cmd))
    /\ pc' = "execute"
    /\ UNCHANGED <<args, host, res, argv, child, pipes, workers, counters,
                   summary, ret, exit_code, spawns, diag>>
Echo ==
    /\ pc = "translated"
    /\ IF args.verbose \/ args.dry_run
       THEN /\ shown' = Some(display(Cmd))
            /\ echoed' = Append(echoed, "[icx-rustc] " \o display(Cmd))
       ELSE UNCHANGED <<shown, echoed>>
    /\ IF args.dry_run
       THEN exit_code' = Some(0) /\ pc' = "exit"
       ELSE exit_code' = exit_code /\ pc' = "execute"
    /\ UNCHANGED <<args, host, res, argv, child, pipes, workers, counters,
                   summary, ret, spawns, diag>>

\* main.rs:9-14: an Err of run() is printed and the process exits with 1
MainError ==
    /\ pc = "error"
    /\ exit_code' = Some(1)
    /\ pc' = "exit"
    /\ UNCHANGED <<args, host, res, argv, shown, echoed, child, pipes, workers,
                   counters, summary, ret, spawns, diag>>

\* executor.rs:10-35: the command is built and spawned with both streams piped
SpawnOk ==
    /\ pc = "execute"
    /\ argv' = command_args(Cmd)
    /\ spawns' = spawns + 1
    /\ \E o \in SeqsUpTo(OutLines, MaxLines), e \in SeqsUpTo(ErrLines, MaxLines) :
         child' = [state |-> "running", out_todo |-> o, err_todo |-> e,
                   out_sent |-> <<>>, err_sent |-> <<>>, status |-> None]
    /\ pc' = "spawned"
    /\ UNCHANGED <<args, host, res, shown, echoed, pipes, workers, counters,
                   summary, ret, exit_code, diag>>

\* executor.rs:31-32: spawn fails (no such executable), run returns Err
SpawnFail ==
    /\ pc = "execute"
    /\ argv' = command_args(Cmd)
    /\ spawns' = spawns + 1
    /\ ret' = [state |-> "err", code |-> 0]
    /\ pc' = "error"
    /\ UNCHANGED <<args, host, res, shown, echoed, child, pipes, workers, counters,
                   summary, exit_code, diag>>

\* executor.rs:37-44
StartStdoutWorker ==
    /\ pc = "spawned"
    /\ workers' = [workers EXCEPT !.out.state = "running"]
    /\ pc' = "stdout_started"
    /\ UNCHANGED <<args, host, res, argv, shown, echoed, child, pipes, counters,
                   summary, ret, exit_code, spawns, diag>>

\* executor.rs:46-63
StartStderrWorker ==
    /\ pc = "stdout_started"
    /\ counters' = [errors |-> 0, warnings |-> 0]
    /\ workers' = [workers EXCEPT !.err.state = "running"]
    /\ pc' = "wait"
    /\ UNCHANGED <<args, host, res, argv, shown, echoed, child, pipes,
                   summary, ret, exit_code, spawns, diag>>

\* executor.rs:65-66
Wait ==
    /\ pc = "wait"
    /\ child.state = "exited"
    /\ pc' = "join_stdout"
    /\ UNCHANGED <<args, host, res, argv, shown, echoed, child, pipes, workers,
                   counters, summary, ret, exit_code, spawns, diag>>

\* executor.rs:68
JoinStdout ==
    /\ pc = "join_stdout"
    /\ workers.out.state = "done"
    /\ pc' = "join_stderr"
    /\ UNCHANGED <<args, host, res, argv, shown, echoed, child, pipes, workers,
                   counters, summary, ret, exit_code, spawns, diag>>

\* executor.rs:69
JoinStderr_NoWait ==
    /\ pc = "join_stderr"
    /\ pc' = "summary"
    /\ UNCHANGED <<args, host, res, argv, shown, echoed, child, pipes, workers,
                   counters, summary, ret, exit_code, spawns, diag>>
JoinStderr ==
    /\ pc = "join_stderr"
    /\ workers.err.state = "done"
    /\ pc' = "summary"
    /\ UNCHANGED <<args, host, res, argv, shown, echoed, child, pipes, workers,
                   counters, summary, ret, exit_code, spawns, diag>>

\* executor.rs:73  print_summary(0, 0, elapsed)
summary_args(c) == [warnings |-> 0, errors |-> 0]

\* executor.rs:75  status.code().unwrap_or(1)
exit_status_code(status) == IF IsSome(status) THEN Unwrap(status) ELSE 1

\* executor.rs:71-75
PrintSummary ==
    /\ pc = "summary"
    /\ summary' = Some(summary_args(counters))
    /\ ret' = [state |-> "ok", code |-> exit_status_code(child.status)]
    /\ pc' = "returned"
    /\ UNCHANGED <<args, host, res, argv, shown, echoed, child, pipes, workers,
                   counters, exit_code, spawns, diag>>

\* diagnostics::post_process, called at main.rs:52
post_process(cmd) == [err |-> None]

\* main.rs:50-55
Exit ==
    /\ pc = "returned"
    /\ IF args.optimize_diagnostics /\ IsSome(post_process(Cmd).err)
       THEN pc' = "error" /\ exit_code' = exit_code
       ELSE pc' = "exit" /\ exit_code' = Some(ret.code)
    /\ UNCHANGED <<args, host, res, argv, shown, echoed, child, pipes, workers,
                   counters, summary, ret, spawns, diag>>

\* diagnostics::format_diagnostic, called at executor.rs:53
format_diagnostic(line) == report(line).out

\* executor.rs:40, 52  `if let Ok(line) = line`
read_ok(l) == l # BadLine

\* executor.rs:38-43: the stdout worker mirrors a line it could read
StdoutRead ==
    /\ workers.out.state = "running"
    /\ Len(pipes.out) > 0
    /\ workers' = IF read_ok(Head(pipes.out))
                  THEN [workers EXCEPT !.out.lines = Append(@, Head(pipes.out)),
                                       !.out.emitted = Append(@, Head(pipes.out))]
                  ELSE workers
    /\ pipes' = [pipes EXCEPT !.out = Tail(@)]
    /\ UNCHANGED <<args, host, pc, res, argv, shown, echoed, child, counters,
                   summary, ret, exit_code, spawns, diag>>

\* executor.rs:39: lines() ends at end of input
StdoutEof ==
    /\ workers.out.state = "running"
    /\ Len(pipes.out) = 0
    /\ pipes.out_closed
    /\ workers' = [workers EXCEPT !.out.state = "done"]
    /\ UNCHANGED <<args, host, pc, res, argv, shown, echoed, child, pipes, counters,
                   summary, ret, exit_code, spawns, diag>>

\* executor.rs:50-62: the stderr worker renders a line it could read; the branches that
\* would count it are empty
StderrRead ==
    /\ workers.err.state = "running"
    /\ Len(pipes.err) > 0
    /\ workers' = IF read_ok(Head(pipes.err))
                  THEN [workers EXCEPT !.err.lines = Append(@, Head(pipes.err)),
                                       !.err.emitted = Append(@, format_diagnostic(Head(pipes.err)))]
                  ELSE workers
    /\ pipes' = [pipes EXCEPT !.err = Tail(@)]
    /\ UNCHANGED <<args, host, pc, res, argv, shown, echoed, child, counters,
                   summary, ret, exit_code, spawns, diag>>

StderrEof ==
    /\ workers.err.state = "running"
    /\ Len(pipes.err) = 0
    /\ pipes.err_closed
    /\ workers' = [workers EXCEPT !.err.state = "done"]
    /\ UNCHANGED <<args, host, pc, res, argv, shown, echoed, child, pipes, counters,
                   summary, ret, exit_code, spawns, diag>>

\* the subprocess writes its next line to a pipe
ChildWriteOut ==
    /\ child.state = "running"
    /\ Len(child.out_todo) > 0
    /\ pipes' = [pipes EXCEPT !.out = Append(@, Head(child.out_todo))]
    /\ child' = [child EXCEPT !.out_todo = Tail(@),
                              !.out_sent = Append(@, Head(child.out_todo))]
    /\ UNCHANGED <<args, host, pc, res, argv, shown, echoed, workers, counters,
                   summary, ret, exit_code, spawns, diag>>

ChildWriteErr ==
    /\ child.state = "running"
    /\ Len(child.err_todo) > 0
    /\ pipes' = [pipes EXCEPT !.err = Append(@, Head(child.err_todo))]
    /\ child' = [child EXCEPT !.err_todo = Tail(@),
                              !.err_sent = Append(@, Head(child.err_todo))]
    /\ UNCHANGED <<args, host, pc, res, argv, shown, echoed, workers, counters,
                   summary, ret, exit_code, spawns, diag>>

\* the subprocess exits with a code, or is killed by a signal; its ends of
\* the pipes are closed
ExitStatuses == {Some(0), Some(1), None}
ChildExit ==
    /\ child.state = "running"
    /\ Len(child.out_todo) = 0
    /\ Len(child.err_todo) = 0
    /\ \E st \in ExitStatuses : child' = [child EXCEPT !.state = "exited", !.status = st]
    /\ pipes' = [pipes EXCEPT !.out_closed = TRUE, !.err_closed = TRUE]
    /\ UNCHANGED <<args, host, pc, res, argv, shown, echoed, workers, counters,
                   summary, ret, exit_code, spawns, diag>>

Next ==
    \/ ShowVersion \/ ShowHelp \/ Translate \/ Echo \/ MainError
    \/ SpawnOk \/ SpawnFail \/ StartStdoutWorker \/ StartStderrWorker
    \/ Wait \/ JoinStdout \/ JoinStderr \/ PrintSummary \/ Exit
    \/ StdoutRead \/ StdoutEof \/ StderrRead \/ StderrEof
    \/ ChildWriteOut \/ ChildWriteErr \/ ChildExit

Spec == Init /\ [][Next]_vars

\* the three threads of executor::run; each is scheduled as long as it can
\* take a step
Parent ==
    \/ StartStdoutWorker \/ StartStderrWorker \/ Wait \/ JoinStdout \/ JoinStderr
    \/ PrintSummary
StdoutWorker == StdoutRead \/ StdoutEof
StderrWorker == StderrRead \/ StderrEof

FairSpec ==
    Spec /\ WF_vars(Parent) /\ WF_vars(StdoutWorker) /\ WF_vars(StderrWorker)

-----------------------------------------------------------------------------
(* Properties of translate (SpecT) *)

Returned == pc \in {"returned", "built"}
Translated == Returned /\ IsSome(res.cmd)

\* the arguments of the Invocation without the trailing raw pass-through ones
Synth == SubSeq(Cmd.args, 1, Len(Cmd.args) - Len(args.raw_args))
Tokens(xs, prefix) == {i \in 1..Len(xs) : StartsWith(xs[i], prefix)}

\* the level of the documented precedence: enum, then legacy string, then
\* release, then 2
EnumLevel(l) == IF l = "O0" THEN "0" ELSE IF l = "O1" THEN "1" ELSE IF l = "O2" THEN "2" ELSE "3"
LegacyLevel(s) ==
    IF s \in {"0", "d"} THEN "0" ELSE IF s = "1" THEN "1"
    ELSE IF s \in {"3", "x"} THEN "3" ELSE "2"
ResolvedLevel ==
    IF IsSome(args.opt_level) THEN EnumLevel(Unwrap(args.opt_level))
    ELSE IF IsSome(args.msvc_opt) THEN LegacyLevel(Unwrap(args.msvc_opt))
    ELSE IF args.release THEN "3"
    ELSE "2"

\* C1: every Invocation starts with the one opt-level flag translation emits,
\* its level is that of the precedence enum > legacy string > release > 2, and
\* -Clto=fat follows it exactly when the level is 3
C1_OptimizationPrecedence ==
    Translated =>
        /\ Cmd.args[1] = "-Copt-level=" \o ResolvedLevel
        /\ Tokens(Synth, "-Copt-level=") = {1}
        /\ ResolvedLevel = "3" => Cmd.args[2] = "-Clto=fat" /\ Tokens(Synth, "-Clto=") = {2}
        /\ ResolvedLevel # "3" => Tokens(Synth, "-Clto=") = {}

C1_Witness ==
    /\ Translated
    /\ args.opt_level = Some("O0")
    /\ args.msvc_opt = Some("3")
    /\ args.release
    /\ Cmd.args[1] = "-Copt-level=0"

Recognized(fs) == {i \in 1..Len(fs) : extension(fs[i]) = Some("rs")}
NoCandidate == IsNone(args.output) /\ IsNone(args.msvc_exe) /\ IsNone(args.msvc_obj)

\* C2: with no recognized input file and no version/help request translate
\* fails with the no-input-files error and returns no Invocation; an
\* Invocation made without a version/help request has at least one input
\* file, and each of its input files has the extension rs
C2_NoInputFiles ==
    Returned /\ ~args.version /\ ~args.help =>
        /\ Recognized(args.files) = {} =>
              IsNone(res.cmd) /\ res.err = Some("No input files specified")
        /\ IsSome(res.cmd) =>
              /\ Len(Cmd.input_files) >= 1
              /\ \A i \in 1..Len(Cmd.input_files) :
                    extension(Cmd.input_files[i]) = Some("rs")

\* C3: the output path is -o if given, else --Fe if given, else --Fo if
\* given; with any of them given it is never the synthesized object name
C3_OutputPriority ==
    Translated =>
        /\ IsSome(args.output) => Cmd.output = args.output
        /\ IsNone(args.output) /\ IsSome(args.msvc_exe) => Cmd.output = args.msvc_exe
        /\ IsNone(args.output) /\ IsNone(args.msvc_exe) /\ IsSome(args.msvc_obj) =>
              Cmd.output = args.msvc_obj
        /\ ~NoCandidate => Cmd.output \in {args.output, args.msvc_exe, args.msvc_obj} \ {None}

C3_Witness ==
    /\ Translated
    /\ args.compile_only
    /\ args.files = <<"foo.rs">>
    /\ IsNone(args.output)
    /\ args.msvc_exe = Some("fe.exe")
    /\ args.msvc_obj = Some("fo.obj")
    /\ Cmd.output = Some("fe.exe")

\* C4: with no output candidate, the output path is <stem>.o of the input
\* file when compile-only is set and exactly one source file is recognized
\* (whatever other file arguments there are), and absent otherwise
C4_ObjectSynthesis ==
    Translated /\ NoCandidate /\ ~args.version /\ ~args.help =>
        Cmd.output =
            IF args.compile_only /\ Cardinality(Recognized(args.files)) = 1
            THEN LET i == CHOOSE i \in Recognized(args.files) : TRUE
                 IN Some(Unwrap(file_stem(args.files[i])) \o ".o")
            ELSE None

IsSuffix(xs, ys) ==
    Len(xs) <= Len(ys) /\ SubSeq(ys, Len(ys) - Len(xs) + 1, Len(ys)) = xs

\* C5: in the argument list of the executed command and in the displayed
\* command, the raw pass-through arguments are the last ones, in their order
C5_RawArgsLast ==
    pc = "built" /\ Len(args.raw_args) > 0 =>
        /\ IsSuffix(args.raw_args, argv)
        /\ EndsWith(Unwrap(shown), " " \o Join(args.raw_args, " "))

FixedTable == {"AVX", "AVX2", "AVX512", "CORE-AVX512", "SSE4.2", "CORE-AVX", "SSE2"}
UnknownArch == IsSome(args.arch) /\ Unwrap(args.arch) \notin FixedTable
Warned == \E i \in 1..Len(res.stderr) : Contains(res.stderr[i], "warning: unknown arch")
HasInput == Recognized(args.files) # {}

\* C6 as stated: for an architecture name outside the table, whatever the
\* other flags, translation succeeds with a warning and puts no
\* target-feature flag among the Invocation's arguments
C6_UnknownArchAnyFlags ==
    Returned /\ UnknownArch /\ HasInput =>
        /\ IsSome(res.cmd)
        /\ Warned
        /\ Tokens(Synth, "-Ctarget-feature=") = {}

\* C6: for an architecture name outside the table and without --xHost,
\* translation succeeds with the unknown-arch warning, naming the
\* architecture, and emits no target-feature flag: none is among the
\* Invocation's arguments before the raw pass-through ones
C6_UnknownArch ==
    Returned /\ UnknownArch /\ HasInput /\ ~args.xhost =>
        /\ IsSome(res.cmd)
        /\ \E i \in 1..Len(res.stderr) :
              res.stderr[i] = "[icx-rustc] warning: unknown arch '" \o Unwrap(args.arch)
                                  \o "', using default"
        /\ Tokens(Synth, "-Ctarget-feature=") = {}

C6_Witness ==
    /\ Translated
    /\ args.arch = Some("avx2")
    /\ ~args.xhost
    /\ args.raw_args = <<"-Ctarget-feature=+avx">>
    /\ Warned

NoneDetected == ~host.avx512f /\ ~host.avx2 /\ ~host.sse42

\* C10: under --xHost a target-feature flag is emitted only if an extension
\* was detected, and a named --arch contributes neither a flag nor a warning
C10_HostFeatures ==
    Translated /\ args.xhost =>
        /\ NoneDetected => Tokens(Synth, "-Ctarget-feature=") = {}
        /\ Cardinality(Tokens(Synth, "-Ctarget-feature=")) <= 1
        /\ res.stderr = <<>>

-----------------------------------------------------------------------------
(* Properties of the classifier (SpecD) *)

FirstMatch(l) ==
    IF location_match(l) THEN "Location"
    ELSE IF error_match(l) THEN "Error"
    ELSE IF warning_match(l) THEN "Warning"
    ELSE IF note_match(l) THEN "Note"
    ELSE IF help_match(l) THEN "Help"
    ELSE IF StartsWith(trim_start(l), "|") THEN "CodeContext"
    ELSE "Plain"

\* C7: the kind of a line is the first of Location, Error, Warning, Note,
\* Help, CodeContext, Plain whose pattern it matches; the deltas are (0,1)
\* exactly for Error, (1,0) exactly for Warning and (0,0) otherwise, so (0,0)
\* for a Location line even with a marker in it; a second classification
\* of the line gives the same kind and deltas
C7_Classification ==
    IsSome(diag.first) =>
        LET r == Unwrap(diag.first) IN
        /\ r.kind = FirstMatch(diag.line)
        /\ r.delta = <<0, 1>> <=> r.kind = "Error"
        /\ r.delta = <<1, 0>> <=> r.kind = "Warning"
        /\ r.kind \notin {"Error", "Warning"} => r.delta = <<0, 0>>
        /\ location_match(diag.line) => r.delta = <<0, 0>>
        /\ ~(r.delta[1] # 0 /\ r.delta[2] # 0)
        /\ IsSome(diag.again) =>
              /\ Unwrap(diag.again).kind = r.kind
              /\ Unwrap(diag.again).delta = r.delta

C7_Witness ==
    /\ diag.line = "--> a.rs:3:5error:"
    /\ IsSome(diag.again)
    /\ Unwrap(diag.first).kind = "Location"
    /\ Unwrap(diag.first).delta = <<0, 0>>

-----------------------------------------------------------------------------
(* Properties of a run (Spec) *)

CountKind(ls, k) == Cardinality({i \in 1..Len(ls) : report(ls[i]).kind = k})

\* C8: the counts of the summary are the numbers of lines of the error
\* stream classified as Warning and as Error
C8_SummaryCounts ==
    IsSome(summary) =>
        Unwrap(summary) = [warnings |-> CountKind(workers.err.lines, "Warning"),
                           errors |-> CountKind(workers.err.lines, "Error")]

\* C9: a subprocess is spawned only after translate has succeeded and with
\* none of dry-run, version, help set; a run whose translation failed spawns
\* nothing and exits with code 1
C9_SpawnOnlyAfterTranslate ==
    /\ spawns > 0 \/ child.state # "none" =>
          /\ IsSome(res.cmd)
          /\ ~args.dry_run /\ ~args.version /\ ~args.help
    /\ IsSome(res.err) =>
          /\ spawns = 0
          /\ pc \in {"error", "exit"}
          /\ pc = "exit" => exit_code = Some(1)

C9_Witness ==
    /\ pc = "exit"
    /\ res.err = Some("No input files specified")
    /\ exit_code = Some(1)
    /\ spawns = 0

\* the text of the bracketed code of an error line, E and its digits
ErrorCode(l) == Slice(l, 7, 7 + DigitRun(l, 8))
ErrorMessage(l) == DropFirst(l, error_match_len(l))

\* C11: the rendering of an Error line with a bracketed code holds the code,
\* the engine tag [ICX] and the message text
C11_ErrorCodePreserved ==
    IsSome(diag.first) /\ Unwrap(diag.first).kind = "Error"
                       /\ StartsWith(diag.line, "error[") =>
        /\ Contains(Unwrap(diag.first).out, ErrorCode(diag.line))
        /\ Contains(Unwrap(diag.first).out, "[ICX]")
        /\ EndsWith(Unwrap(diag.first).out, ErrorMessage(diag.line))

-----------------------------------------------------------------------------
(* Properties of the threads of a run (FairSpec) *)

Valid(ls) == SelectSeq(ls, LAMBDA l : l # BadLine)
Rendered(ls) == [i \in 1..Len(ls) |-> format_diagnostic(ls[i])]
Reported == IsSome(summary) \/ ret.state = "ok"
StreamsDrained ==
    /\ child.state = "exited"
    /\ workers.out.state = "done" /\ workers.err.state = "done"
    /\ Len(child.out_todo) = 0 /\ Len(child.err_todo) = 0
    /\ Len(pipes.out) = 0 /\ Len(pipes.err) = 0

C12_Joined ==
    Reported =>
        /\ StreamsDrained
        /\ workers.out.emitted = Valid(child.out_sent)
        /\ workers.err.emitted = Rendered(Valid(child.err_sent))
        /\ ret.state = "ok" =>
              /\ IsSome(summary)
              /\ ret.code = IF IsSome(child.status) THEN Unwrap(child.status) ELSE 1

====
